---- MODULE Spec2Model ----
(***************************************************************************)
(* A model of mbeval/src/tablebase.rs: the table registry (add_path,       *)
(* open_table), the selection engine (select_table) and the probe          *)
(* orchestrator (probe_side, probe).                                       *)
(*                                                                         *)
(* Names are sequences of one-character strings, so that the suffix        *)
(* stripping of the naming decoder is computed and not assumed.            *)
(***************************************************************************)
EXTENDS Integers, Sequences, FiniteSets, TLC

VARIABLES
    fs,            \* the directory trees on disk, by root (never written by the program)
    tables,        \* Tablebase.tables: TableKey -> (PathBuf, OnceCell<Table>)
    mbeval_paths,  \* the roots forwarded to the native classifier by mbeval_add_path
    last_add,      \* the last add_path call: its root, its result, and whether the
                   \* call before it was a successful add_path of the same root
    handles,       \* number of Table objects constructed so far (a handle is its number)
    pc,            \* per caller thread: where it is inside open_table
    arg,           \* per caller thread: the key it is looking up
    ret,           \* per caller thread: what its last open_table returned
    call           \* the last select_table / probe call: its inputs, result and trace

vars == <<fs, tables, mbeval_paths, last_add, handles, pc, arg, ret, call>>

----------------------------------------------------------------------------
(* Option<T> *)

None == [some |-> FALSE]
Some(v) == [some |-> TRUE, val |-> v]

(* src line 19: const ALL_ONES: u64 = !0.  Indices are naturals in the     *)
(* model; the one value outside them, -1, is the all-ones bit pattern.     *)
ALL_ONES == -1

----------------------------------------------------------------------------
(* Material = ByColor<ByRole<u8>> *)

Roles == {"pawn", "knight", "bishop", "rook", "queen", "king"}
Colors == {"white", "black"}

Other(color) == IF color = "white" THEN "black" ELSE "white"

MaterialDefault == [c \in Colors |-> [r \in Roles |-> 0]]

(* shakmaty Role::from_char: the English letter, either case *)
RoleFromChar(c) ==
    CASE c \in {"p", "P"} -> Some("pawn")
      [] c \in {"n", "N"} -> Some("knight")
      [] c \in {"b", "B"} -> Some("bishop")
      [] c \in {"r", "R"} -> Some("rook")
      [] c \in {"q", "Q"} -> Some("queen")
      [] c \in {"k", "K"} -> Some("king")
      [] OTHER -> None

(* str::strip_suffix *)
strip_suffix(name, suffix) ==
    IF Len(name) >= Len(suffix)
       /\ SubSeq(name, Len(name) - Len(suffix) + 1, Len(name)) = suffix
    THEN Some(SubSeq(name, 1, Len(name) - Len(suffix)))
    ELSE None

(* the loop of parse_material from character i on, with the loop's state *)
RECURSIVE MaterialLoop(_, _, _, _)
MaterialLoop(name, i, color, material) ==
    IF i > Len(name) THEN Some(material)
    ELSE LET role == RoleFromChar(name[i]) IN
         IF ~role.some THEN None
         ELSE LET c == IF role.val = "king" THEN Other(color) ELSE color
              IN MaterialLoop(name, i + 1, c,
                    [material EXCEPT ![c][role.val] = (@ + 1) % 256])

MaxMaterialLen == 9

(* the first side of a signature taken for black *)
parse_material_black_first(name) ==
    IF Len(name) > MaxMaterialLen THEN None
    ELSE MaterialLoop(name, 1, "white", MaterialDefault)

parse_material(name) ==
    IF Len(name) > MaxMaterialLen THEN None
    ELSE MaterialLoop(name, 1, "black", MaterialDefault)

----------------------------------------------------------------------------
(* the naming decoder *)

PawnFileTypes ==
    {"Free", "Bp1", "Op1", "Op21", "Op12", "Op22", "Dp2", "Op31", "Op13",
     "Op41", "Op14", "Op32", "Op23", "Op33", "Op42", "Op24"}

BishopParities == {"None", "Even", "Odd"}

(* the pawn-file suffixes in the order parse_dirname tries them *)
PawnFileSuffixes ==
    << <<<<"_","b","p","1">>, "Bp1">>,
       <<<<"_","o","p","1">>, "Op1">>,
       <<<<"_","o","p","2","1">>, "Op21">>,
       <<<<"_","o","p","1","2">>, "Op12">>,
       <<<<"_","d","p","2">>, "Dp2">>,
       <<<<"_","o","p","2","2">>, "Op22">>,
       <<<<"_","o","p","3","1">>, "Op31">>,
       <<<<"_","o","p","1","3">>, "Op13">>,
       <<<<"_","o","p","4","1">>, "Op41">>,
       <<<<"_","o","p","1","4">>, "Op14">>,
       <<<<"_","o","p","3","2">>, "Op32">>,
       <<<<"_","o","p","2","3">>, "Op23">>,
       <<<<"_","o","p","3","3">>, "Op33">>,
       <<<<"_","o","p","4","2">>, "Op42">>,
       <<<<"_","o","p","2","4">>, "Op24">> >>

(* the if / else-if chain over the pawn-file suffixes, from rule i on *)
RECURSIVE StripPawnFile(_, _)
StripPawnFile(name, i) ==
    IF i > Len(PawnFileSuffixes) THEN <<name, "Free">>
    ELSE LET s == strip_suffix(name, PawnFileSuffixes[i][1]) IN
         IF s.some THEN <<s.val, PawnFileSuffixes[i][2]>>
         ELSE StripPawnFile(name, i + 1)

(* strip one of two bishop-parity suffixes: <<rest, parity>> *)
StripParity(name, odd, even) ==
    LET o == strip_suffix(name, odd)
        e == strip_suffix(name, even)
    IN IF o.some THEN <<o.val, "Odd">>
       ELSE IF e.some THEN <<e.val, "Even">>
       ELSE <<name, "None">>

parse_dirname(dirname) ==
    LET out == strip_suffix(dirname, <<"_","o","u","t">>) IN
    IF ~out.some THEN None
    ELSE
      LET bb == StripParity(out.val, <<"_","b","b","o">>, <<"_","b","b","e">>)
          wb == StripParity(bb[1], <<"_","w","b","o">>, <<"_","w","b","e">>)
          pf == IF bb[2] = "None" /\ wb[2] = "None"
                THEN StripPawnFile(wb[1], 1)
                ELSE <<wb[1], "Free">>
          material == parse_material(pf[1])
      IN IF ~material.some THEN None
         ELSE Some([material |-> material.val,
                    pawn_file_type |-> pf[2],
                    bishop_parity |-> [white |-> wb[2], black |-> bb[2]]])

(* str::split_once: the first occurrence of pat in name, from position i on *)
RECURSIVE split_from(_, _, _)
split_from(name, pat, i) ==
    IF i + Len(pat) - 1 > Len(name) THEN None
    ELSE IF SubSeq(name, i, i + Len(pat) - 1) = pat
         THEN Some(<<SubSeq(name, 1, i - 1), SubSeq(name, i + Len(pat), Len(name))>>)
         ELSE split_from(name, pat, i + 1)

split_once(name, pat) == split_from(name, pat, 1)

Digits == <<"0", "1", "2", "3", "4", "5", "6", "7", "8", "9">>

DigitValue(c) == CHOOSE d \in 0..9 : Digits[d + 1] = c

(* the digits of str::parse::<u32> from position i on; acc is the value so *)
(* far; a value above u32::MAX = 4294967295 is an error                    *)
RECURSIVE ParseDigits(_, _, _)
ParseDigits(s, i, acc) ==
    IF i > Len(s) THEN Some(acc)
    ELSE IF \A d \in 0..9 : Digits[d + 1] # s[i] THEN None
    ELSE IF acc > 429496729 \/ (acc = 429496729 /\ DigitValue(s[i]) > 5) THEN None
    ELSE ParseDigits(s, i + 1, acc * 10 + DigitValue(s[i]))

(* str::parse::<u32>: an optional '+', then at least one digit *)
ParseU32(s) ==
    LET digits == IF Len(s) > 0 /\ s[1] = "+" THEN Tail(s) ELSE s
    IN IF Len(digits) = 0 THEN None ELSE ParseDigits(digits, 1, 0)

parse_filename(filename) ==
    LET mb == strip_suffix(filename, <<".","m","b">>)
        hi == strip_suffix(filename, <<".","h","i">>)
    IN
    IF ~mb.some /\ ~hi.some THEN None
    ELSE
      LET name == IF mb.some THEN mb.val ELSE hi.val
          table_type == IF mb.some THEN "Mb" ELSE "HighDtc"
          b == split_once(name, <<"_","b","_">>)
          w == split_once(name, <<"_","w","_">>)
      IN
      IF ~b.some /\ ~w.some THEN None
      ELSE
        LET parts == IF b.some THEN b.val ELSE w.val
            side == IF b.some THEN "black" ELSE "white"
            material == parse_material(parts[1])
            kk_index == ParseU32(parts[2])
        IN IF ~material.some \/ ~kk_index.some THEN None
           ELSE Some([material |-> material.val,
                      side |-> side,
                      kk_index |-> kk_index.val,
                      table_type |-> table_type])

----------------------------------------------------------------------------
(* the registry *)

TableKey(material, pawn_file_type, bishop_parity, side, kk_index, table_type) ==
    [material |-> material,
     pawn_file_type |-> pawn_file_type,
     bishop_parity |-> bishop_parity,
     side |-> side,
     kk_index |-> kk_index,
     table_type |-> table_type]

(* the states of a OnceCell<Table>: empty, being initialised by a caller,  *)
(* or holding the Table with the given handle (a positive number)          *)
Uninit == 0
Running == -1

(* (PathBuf, OnceCell::new()); opens and fails count the Table::open calls *)
(* made for this entry and those of them that returned an error            *)
NewEntry(path) == [path |-> path, cell |-> Uninit, opens |-> 0, fails |-> 0]

(* an insert that takes a key already present for a conflict and drops it *)
InsertOrEvict(map, key, value) ==
    IF key \in DOMAIN map
    THEN [k \in DOMAIN map \ {key} |-> map[k]]
    ELSE [k \in DOMAIN map \cup {key} |-> IF k = key THEN value ELSE map[k]]

(* HashMap::insert: the new value replaces any value under the same key *)
Insert(map, key, value) ==
    [k \in DOMAIN map \cup {key} |-> IF k = key THEN value ELSE map[k]]


(* io::Result<usize> *)
Ok(v) == [ok |-> TRUE, val |-> v]
Err == [ok |-> FALSE]

(* where a directory read of one add_path call fails: nowhere; at the root's *)
(* read_dir (d = 0); at entry d of the root or at that directory's read_dir  *)
(* (f = 0); or at entry f of directory d                                     *)
NoFail == [d |-> -1, f |-> -1]
FailAt(d, f) == [d |-> d, f |-> f]

(* the body of the inner loop for one file, lines 57-73 *)
ScanFile(acc, root, dir, parsed, file) ==
    LET p == parse_filename(file) IN
    IF p.some /\ parsed.material = p.val.material
    THEN [acc EXCEPT
            !.tables = Insert(@,
                TableKey(p.val.material, parsed.pawn_file_type, parsed.bishop_parity,
                         p.val.side, p.val.kk_index, p.val.table_type),
                NewEntry(<<root, dir.name, file>>)),
            !.num = @ + 1]
    ELSE acc

(* the inner loop, lines 55-74, from file j on; failf = 0: no entry fails *)
RECURSIVE ScanFiles(_, _, _, _, _, _)
ScanFiles(acc, root, dir, parsed, j, failf) ==
    IF j > Len(dir.files) THEN acc
    ELSE IF j = failf THEN [acc EXCEPT !.err = TRUE]
    ELSE ScanFiles(ScanFile(acc, root, dir, parsed, dir.files[j]),
                   root, dir, parsed, j + 1, failf)

(* the outer loop, lines 52-76, from directory i on *)
RECURSIVE ScanDirs(_, _, _, _, _)
ScanDirs(acc, root, tree, i, fail) ==
    IF i > Len(tree) THEN acc
    ELSE IF fail.d = i /\ fail.f = 0 THEN [acc EXCEPT !.err = TRUE]
    ELSE LET parsed == parse_dirname(tree[i].name)
             next == IF parsed.some
                     THEN ScanFiles(acc, root, tree[i], parsed.val, 1,
                                    IF fail.d = i THEN fail.f ELSE 0)
                     ELSE acc
         IN IF next.err THEN next ELSE ScanDirs(next, root, tree, i + 1, fail)

(* an add_path that leaves the registry as it found it when it fails *)
add_path_rollback(map, root, tree, fail) ==
    LET end == ScanDirs([tables |-> map, num |-> 0, err |-> FALSE], root, tree, 1, fail)
    IN IF fail.d = 0 \/ end.err THEN [tables |-> map, result |-> Err]
       ELSE [tables |-> end.tables, result |-> Ok(end.num)]

(* Tablebase::add_path on the registry map over the tree under root: the  *)
(* registry after the call and the call's result                           *)
add_path(map, root, tree, fail) ==
    IF fail.d = 0 THEN [tables |-> map, result |-> Err]
    ELSE LET end == ScanDirs([tables |-> map, num |-> 0, err |-> FALSE],
                             root, tree, 1, fail)
         IN [tables |-> end.tables,
             result |-> IF end.err THEN Err ELSE Ok(end.num)]

(* the failure points an add_path call over tree can meet *)
FailPoints(tree) ==
    {NoFail, FailAt(0, 0)}
    \cup {FailAt(d, 0) : d \in 1..Len(tree)}
    \cup UNION {{FailAt(d, f) : f \in 1..Len(tree[d].files)} :
                    d \in {i \in 1..Len(tree) : parse_dirname(tree[i].name).some}}


----------------------------------------------------------------------------
(* open_table and the OnceCell of an entry *)

(* a cell that does not make a second caller wait for the first *)
get_or_try_init_racy(cell) ==
    IF cell = Running \/ cell = Uninit THEN "init" ELSE "get"

(* OnceCell::get_or_try_init on a cell: return the value it holds ("get"), *)
(* run the initialiser ("init"), or block while another caller runs it     *)
get_or_try_init(cell) ==
    IF cell = Running THEN "wait"
    ELSE IF cell = Uninit THEN "init"
    ELSE "get"

----------------------------------------------------------------------------
(* the files on disk *)

OUT == <<"_","o","u","t">>

Dir(name, files) == [name |-> name, files |-> files]

(* kpk_out/{kpk_w_1.mb, kpk_w_01.mb}: two files of one key *)
DirKpk ==
    Dir(<<"k","p","k">> \o OUT,
        << <<"k","p","k","_","w","_","1",".","m","b">>,
           <<"k","p","k","_","w","_","0","1",".","m","b">> >>)

(* kkp_out/{kkp_b_0.hi, kqk_w_3.mb}: the second file is of another material *)
DirKkp ==
    Dir(<<"k","k","p">> \o OUT,
        << <<"k","k","p","_","b","_","0",".","h","i">>,
           <<"k","q","k","_","w","_","3",".","m","b">> >>)

(* pkk_out/{pkk_b_0.hi}: the material of kkp under another spelling *)
DirPkk ==
    Dir(<<"p","k","k">> \o OUT,
        << <<"p","k","k","_","b","_","0",".","h","i">> >>)

(* kbkb_wbe_bbo_out/{kbkb_w_2.mb} *)
DirKbkb ==
    Dir(<<"k","b","k","b","_","w","b","e","_","b","b","o">> \o OUT,
        << <<"k","b","k","b","_","w","_","2",".","m","b">> >>)

(* kpk/{kpk_w_1.mb}: not a table directory *)
DirJunk ==
    Dir(<<"k","p","k">>,
        << <<"k","p","k","_","w","_","1",".","m","b">> >>)

Roots == {"r1", "r2"}

(* the trees of the first root, each the entries of the root in read_dir order *)
TreesR1 ==
    { <<>>,
      <<DirKpk>>,
      <<DirJunk, DirKpk>>,
      <<DirKkp, DirPkk>>,
      <<DirPkk, DirKkp>>,
      <<DirKbkb, DirKkp>>,
      <<DirKpk, DirKbkb>>,
      <<DirKbkb, DirJunk>> }

Threads == {"t1", "t2"}

MaxAddPath == 2
MaxOpens == 2
MaxHandles == 2

(* a key no file of the model decodes to *)
KeyAbsent ==
    TableKey(MaterialDefault, "Free", [white |-> "None", black |-> "None"],
             "white", 0, "Mb")

NoCall == [op |-> "none"]

(* the trees of the second root: empty, or kpk_out again, whose files decode *)
(* to keys that the first root may hold under other paths                   *)
TreesR2 == {<<>>, <<DirKpk>>}

NoRet == [ok |-> TRUE, val |-> [some |-> FALSE, pending |-> TRUE]]

Init ==
    /\ fs \in [Roots -> TreesR1 \cup TreesR2]
    /\ fs["r1"] \in TreesR1
    /\ fs["r2"] \in TreesR2
    /\ tables = <<>>
    /\ mbeval_paths = <<>>
    /\ last_add = [root |-> "", result |-> Err, again |-> FALSE]
    /\ handles = 0
    /\ pc = [t \in Threads |-> "idle"]
    /\ arg = [t \in Threads |-> KeyAbsent]
    /\ ret = [t \in Threads |-> NoRet]
    /\ call = NoCall

(* add_path(root); &mut self: no caller is inside open_table or holds a &Table *)
AddPath(root, fail) ==
    /\ \A t \in Threads : pc[t] = "idle"
    /\ Len(mbeval_paths) < MaxAddPath
    /\ LET r == add_path(tables, root, fs[root], fail) IN
        /\ mbeval_paths' = Append(mbeval_paths, root)
        /\ tables' = r.tables
        /\ last_add' = [root |-> root, result |-> r.result,
                         again |-> last_add.root = root /\ last_add.result.ok]
    /\ UNCHANGED <<fs, handles, pc, arg, ret, call>>

(* what a caller does on reaching the cell of its key *)
Enter(t, key) ==
    LET how == get_or_try_init(tables[key].cell) IN
    /\ arg' = [arg EXCEPT ![t] = key]
    /\ CASE how = "get" ->
              /\ pc' = [pc EXCEPT ![t] = "returned"]
              /\ ret' = [ret EXCEPT ![t] = Ok(Some(tables[key].cell))]
              /\ UNCHANGED tables
         [] how = "init" ->
              /\ tables[key].opens < MaxOpens
              /\ pc' = [pc EXCEPT ![t] = "opening"]
              /\ tables' = [tables EXCEPT ![key].cell = Running, ![key].opens = @ + 1]
              /\ UNCHANGED ret
         [] how = "wait" ->
              /\ pc' = [pc EXCEPT ![t] = "waiting"]
              /\ UNCHANGED <<tables, ret>>

(* open_table(key), up to the call of Table::open or to its return *)
OpenTable(t, key) ==
    /\ pc[t] = "idle"
    /\ IF key \in DOMAIN tables
       THEN Enter(t, key)
       ELSE /\ arg' = [arg EXCEPT ![t] = key]
            /\ ret' = [ret EXCEPT ![t] = Ok(None)]
            /\ pc' = [pc EXCEPT ![t] = "returned"]
            /\ UNCHANGED tables
    /\ UNCHANGED <<fs, mbeval_paths, last_add, handles, call>>

(* a blocked caller goes on once the initialiser it waited for has returned *)
Wake(t) ==
    /\ pc[t] = "waiting"
    /\ get_or_try_init(tables[arg[t]].cell) # "wait"
    /\ Enter(t, arg[t])
    /\ UNCHANGED <<fs, mbeval_paths, last_add, handles, call>>

(* a cell that stays taken by the initialiser that failed *)
cell_after_error_taken(cell) == cell

(* OnceCell::get_or_try_init when the initialiser returns Err: the cell *)
(* is left empty                                                       *)
cell_after_error(cell) == Uninit

(* Table::open(path) returns: the Table goes into the cell, or the error *)
(* goes to the caller and the cell stays empty                           *)
OpenReturns(t, ok) ==
    /\ pc[t] = "opening"
    /\ IF ok
       THEN /\ handles < MaxHandles
            /\ handles' = handles + 1
            /\ tables' = [tables EXCEPT ![arg[t]].cell = handles + 1]
            /\ ret' = [ret EXCEPT ![t] = Ok(Some(handles + 1))]
       ELSE /\ tables' = [tables EXCEPT ![arg[t]].cell = cell_after_error(@),
                                          ![arg[t]].fails = @ + 1]
            /\ ret' = [ret EXCEPT ![t] = Err]
            /\ UNCHANGED handles
    /\ pc' = [pc EXCEPT ![t] = "returned"]
    /\ UNCHANGED <<fs, mbeval_paths, last_add, arg, call>>

(* the caller is done with what open_table returned and drops the &Table, *)
(* ending its borrow of the registry                                      *)
Release(t) ==
    /\ pc[t] = "returned"
    /\ pc' = [pc EXCEPT ![t] = "idle"]
    /\ arg' = [arg EXCEPT ![t] = KeyAbsent]
    /\ ret' = [ret EXCEPT ![t] = NoRet]
    /\ UNCHANGED <<fs, tables, mbeval_paths, last_add, handles, call>>

Next ==
    \/ \E root \in Roots : \E fail \in FailPoints(fs[root]) : AddPath(root, fail)
    \/ \E t \in Threads, key \in DOMAIN tables \cup {KeyAbsent} : OpenTable(t, key)
    \/ \E t \in Threads : Wake(t)
    \/ \E t \in Threads, ok \in BOOLEAN : OpenReturns(t, ok)
    \/ \E t \in Threads : Release(t)

Spec == Init /\ [][Next]_vars


----------------------------------------------------------------------------
(* the registry's claims *)

PathMap(map) == [k \in DOMAIN map |-> map[k].path]

(* C1: for every entry, at most one Table::open call has not ended in an  *)
(* error (it is running or it filled the cell), an entry whose opens never *)
(* failed has seen at most one call, a filled cell has seen exactly one    *)
(* successful call, and every caller that was handed a table was handed    *)
(* the complete Table that the cell holds                                  *)
C1_OpenedExactlyOnce ==
    /\ \A k \in DOMAIN tables :
          /\ tables[k].opens - tables[k].fails <= 1
          /\ tables[k].fails = 0 => tables[k].opens <= 1
          /\ tables[k].cell > 0 => tables[k].opens - tables[k].fails = 1
          /\ tables[k].cell = Uninit => tables[k].opens = tables[k].fails
    /\ \A t \in Threads :
          (pc[t] = "returned" /\ ret[t].ok /\ ret[t].val.some) =>
              /\ arg[t] \in DOMAIN tables
              /\ ret[t].val.val > 0
              /\ ret[t].val.val = tables[arg[t]].cell

(* two callers hold the table of one key, which was opened once *)
C1_Witness ==
    /\ \A t \in Threads : pc[t] = "returned" /\ ret[t].ok /\ ret[t].val.some
    /\ \A t, u \in Threads : arg[t] = arg[u] /\ ret[t] = ret[u]
    /\ \A t \in Threads : tables[arg[t]].opens = 1

(* C2: an entry whose table has been opened is still there after every    *)
(* step, with the same table in its cell and no further Table::open call  *)
C2_OpenedEntryNeverReplaced ==
    [][\A k \in DOMAIN tables :
          tables[k].cell > 0 =>
             /\ k \in DOMAIN tables'
             /\ tables'[k].cell = tables[k].cell
             /\ tables'[k].opens = tables[k].opens]_vars

(* C3: a successful add_path of the root that the call before it scanned  *)
(* successfully leaves every key and every key's path as they were         *)
C3_RegistrationIdempotent ==
    [][(/\ Len(mbeval_paths') = Len(mbeval_paths) + 1
        /\ last_add'.again
        /\ last_add'.result.ok)
       => PathMap(tables') = PathMap(tables)]_vars

(* a root scanned twice in a row, both times to the end, the second scan   *)
(* registering at least two files over the entries of the first            *)
C3_Witness ==
    /\ Len(mbeval_paths) = 2
    /\ last_add.again
    /\ last_add.result.ok
    /\ last_add.result.val >= 2
    /\ DOMAIN tables # {}


----------------------------------------------------------------------------
(* the selection engine, run by one caller from call to return            *)

(* What one call has done so far: the registry and the Table count as the *)
(* call has left them, and the external calls it has made: the keys it    *)
(* looked up, the paths it gave to Table::open, its calls of the native  *)
(* classifier, its table reads, and its single-sided probes               *)
Start(map, n) ==
    [tables |-> map, handles |-> n, lookups |-> <<>>, opens |-> <<>>,
     classified |-> 0, reads |-> 0, sides |-> <<>>]

(* Table::open(path) fails for every path while bad holds *)
(* open_table(key): the state after it and what it returns: Err,        *)
(* Ok(None) or Ok(Some(the Table of the entry))                         *)
open_table(st, key, bad) ==
    LET looked == [st EXCEPT !.lookups = Append(@, key)] IN
    IF key \notin DOMAIN st.tables THEN [st |-> looked, result |-> Ok(None)]
    ELSE LET entry == st.tables[key] IN
         IF get_or_try_init(entry.cell) = "get"
         THEN [st |-> looked, result |-> Ok(Some(entry.cell))]
         ELSE IF bad
         THEN [st |-> [looked EXCEPT !.opens = Append(@, entry.path),
                                     !.tables[key].opens = @ + 1,
                                     !.tables[key].fails = @ + 1],
               result |-> Err]
         ELSE [st |-> [looked EXCEPT !.opens = Append(@, entry.path),
                                     !.tables[key].opens = @ + 1,
                                     !.tables[key].cell = st.handles + 1,
                                     !.handles = @ + 1],
               result |-> Ok(Some(st.handles + 1))]

(* the index that goes with candidate i, always the first candidate's *)
CandidateIndexOfFirst(mb_info, i) == mb_info.parity_index[1].index

(* line 114: the index that goes with bishop-parity candidate i *)
CandidateIndex(mb_info, i) == mb_info.parity_index[i].index

(* lines 103-113: the key of bishop-parity candidate i *)
CandidateKey(table_key, mb_info, i) ==
    [table_key EXCEPT
        !.bishop_parity = [white |-> mb_info.parity_index[i].bishop_parity[1],
                           black |-> mb_info.parity_index[i].bishop_parity[2]]]

(* what select_table returns for what open_table(key) returned: the    *)
(* error, nothing, or the table with its key and the index              *)
WithIndex(r, key, index) ==
    IF ~r.result.ok \/ ~r.result.val.some THEN r
    ELSE [st |-> r.st,
          result |-> Ok(Some([key |-> key, table |-> r.result.val.val,
                              index |-> index]))]

(* lines 102-116: the loop over the candidates from candidate i on;      *)
(* Ok(None) when it ends without a hit.  ParityNext is the loop after    *)
(* candidate i gave r: return on an error or a hit, else go on           *)
RECURSIVE ParityLoop(_, _, _, _, _)
RECURSIVE ParityNext(_, _, _, _, _)
ParityLoop(st, table_key, mb_info, i, bad) ==
    IF i > mb_info.num_parities THEN [st |-> st, result |-> Ok(None)]
    ELSE ParityNext(WithIndex(open_table(st, CandidateKey(table_key, mb_info, i), bad),
                              CandidateKey(table_key, mb_info, i),
                              CandidateIndex(mb_info, i)),
                    table_key, mb_info, i, bad)

ParityNext(r, table_key, mb_info, i, bad) ==
    IF ~r.result.ok \/ r.result.val.some THEN r
    ELSE ParityLoop(r.st, table_key, mb_info, i + 1, bad)

(* the dispatch without the two substitutions *)
NoSubstitute(pawn_file_type) == None

(* lines 123-131 and 138-146: the variant tried before a type's own, with *)
(* the index that belongs to it                                           *)
Substitute(pawn_file_type) ==
    CASE pawn_file_type = "Bp1" -> Some([variant |-> "Op1", index |-> "index_op_11"])
      [] pawn_file_type = "Dp2" -> Some([variant |-> "Op22", index |-> "index_op_22"])
      [] OTHER -> None

(* the dispatch with the indices of the two 2-and-1 types exchanged *)
NativeIndexSwapped(mb_info, pawn_file_type) ==
    CASE pawn_file_type = "Free" -> ALL_ONES
      [] pawn_file_type = "Bp1" -> mb_info.index_bp_11
      [] pawn_file_type = "Op1" -> mb_info.index_op_11
      [] pawn_file_type = "Op21" -> mb_info.index_op_12
      [] pawn_file_type = "Op12" -> mb_info.index_op_21
      [] pawn_file_type = "Op22" -> mb_info.index_op_22
      [] pawn_file_type = "Dp2" -> mb_info.index_dp_22
      [] pawn_file_type = "Op31" -> mb_info.index_op_31
      [] pawn_file_type = "Op13" -> mb_info.index_op_13
      [] pawn_file_type = "Op41" -> mb_info.index_op_41
      [] pawn_file_type = "Op14" -> mb_info.index_op_14
      [] pawn_file_type = "Op32" -> mb_info.index_op_32
      [] pawn_file_type = "Op23" -> mb_info.index_op_23
      [] pawn_file_type = "Op33" -> mb_info.index_op_33
      [] pawn_file_type = "Op42" -> mb_info.index_op_42
      [] pawn_file_type = "Op24" -> mb_info.index_op_24

(* lines 121-158: the value of the match when no substitute returns *)
NativeIndex(mb_info, pawn_file_type) ==
    CASE pawn_file_type = "Free" -> ALL_ONES
      [] pawn_file_type = "Bp1" -> mb_info.index_bp_11
      [] pawn_file_type = "Op1" -> mb_info.index_op_11
      [] pawn_file_type = "Op21" -> mb_info.index_op_21
      [] pawn_file_type = "Op12" -> mb_info.index_op_12
      [] pawn_file_type = "Op22" -> mb_info.index_op_22
      [] pawn_file_type = "Dp2" -> mb_info.index_dp_22
      [] pawn_file_type = "Op31" -> mb_info.index_op_31
      [] pawn_file_type = "Op13" -> mb_info.index_op_13
      [] pawn_file_type = "Op41" -> mb_info.index_op_41
      [] pawn_file_type = "Op14" -> mb_info.index_op_14
      [] pawn_file_type = "Op32" -> mb_info.index_op_32
      [] pawn_file_type = "Op23" -> mb_info.index_op_23
      [] pawn_file_type = "Op33" -> mb_info.index_op_33
      [] pawn_file_type = "Op42" -> mb_info.index_op_42
      [] pawn_file_type = "Op24" -> mb_info.index_op_24

(* the final lookup made whatever the index is *)
FinalLookupAnyIndex(st, table_key, mb_info, pawn_file_type, bad) ==
    WithIndex(open_table(st, [table_key EXCEPT !.pawn_file_type = pawn_file_type], bad),
              [table_key EXCEPT !.pawn_file_type = pawn_file_type],
              NativeIndex(mb_info, pawn_file_type))

(* lines 160-169: the sentinel check and the final lookup *)
FinalLookup(st, table_key, mb_info, pawn_file_type, bad) ==
    IF NativeIndex(mb_info, pawn_file_type) = ALL_ONES
    THEN [st |-> st, result |-> Ok(None)]
    ELSE WithIndex(open_table(st, [table_key EXCEPT !.pawn_file_type = pawn_file_type], bad),
                   [table_key EXCEPT !.pawn_file_type = pawn_file_type],
                   NativeIndex(mb_info, pawn_file_type))

(* lines 128-132 and 143-147: after the lookup of the substitute gave r: *)
(* return on an error or a hit, else go on with the type's own index     *)
SubstituteNext(r, table_key, mb_info, bad) ==
    IF ~r.result.ok \/ r.result.val.some THEN r
    ELSE FinalLookup(r.st, table_key, mb_info, mb_info.pawn_file_type, bad)

(* lines 118-170: the pawn-file path *)
PawnFileStep(st, table_key, mb_info, bad) ==
    LET sub == Substitute(mb_info.pawn_file_type) IN
    IF sub.some /\ mb_info[sub.val.index] # ALL_ONES
    THEN SubstituteNext(
             WithIndex(open_table(st, [table_key EXCEPT !.pawn_file_type = sub.val.variant], bad),
                       [table_key EXCEPT !.pawn_file_type = sub.val.variant],
                       mb_info[sub.val.index]),
             table_key, mb_info, bad)
    ELSE FinalLookup(st, table_key, mb_info, mb_info.pawn_file_type, bad)

(* lines 116-118: after the loop over the candidates gave hit *)
ParityDone(hit, table_key, mb_info, bad) ==
    IF ~hit.result.ok \/ hit.result.val.some THEN hit
    ELSE PawnFileStep(hit.st, table_key, mb_info, bad)

(* Board::material *)
material(board) ==
    [c \in Colors |->
        [r \in Roles |-> IF r = "bishop" THEN board[c].light + board[c].dark
                         ELSE board[c][r]]]

(* the key taken for the side that is not to move *)
BaseKeyOtherSide(pos, mb_info, table_type) ==
    TableKey(material(pos.board), "Free", [white |-> "None", black |-> "None"],
             Other(pos.turn), mb_info.kk_index, table_type)

(* lines 93-100: the key select_table starts from *)
BaseKey(pos, mb_info, table_type) ==
    TableKey(material(pos.board), "Free", [white |-> "None", black |-> "None"],
             pos.turn, mb_info.kk_index, table_type)

(* Tablebase::select_table: the state after it and what it returns: Err, *)
(* Ok(None) or Ok(Some(key, table, index)) with the key the table is     *)
(* registered under                                                      *)
select_table(st, pos, mb_info, table_type, bad) ==
    ParityDone(ParityLoop(st, BaseKey(pos, mb_info, table_type), mb_info, 1, bad),
               BaseKey(pos, mb_info, table_type), mb_info, bad)

----------------------------------------------------------------------------
(* names on disk for a given key, after the naming convention that       *)
(* parse_dirname and parse_filename decode                               *)

PawnFileSuffix(pawn_file_type) ==
    IF pawn_file_type = "Free" THEN <<>>
    ELSE LET i == CHOOSE j \in 1..Len(PawnFileSuffixes) :
                      PawnFileSuffixes[j][2] = pawn_file_type
         IN PawnFileSuffixes[i][1]

ParitySuffix(letter, parity) ==
    CASE parity = "Odd" -> <<"_", letter, "b", "o">>
      [] parity = "Even" -> <<"_", letter, "b", "e">>
      [] OTHER -> <<>>

DirName(signature, pawn_file_type, bishop_parity) ==
    signature \o PawnFileSuffix(pawn_file_type)
              \o ParitySuffix("w", bishop_parity[1])
              \o ParitySuffix("b", bishop_parity[2])
              \o OUT

FileName(signature, side, kk_digits, table_type) ==
    signature \o <<"_", IF side = "white" THEN "w" ELSE "b", "_">> \o kk_digits
              \o (IF table_type = "Mb" THEN <<".","m","b">> ELSE <<".","h","i">>)

(* a table directory of one variant holding the four files given by two  *)
(* sides and two table kinds, all of king-configuration bucket kk_digits *)
VariantDir(signature, variant, kk_digits) ==
    Dir(DirName(signature, variant[1], variant[2]),
        << FileName(signature, "white", kk_digits, "Mb"),
           FileName(signature, "black", kk_digits, "Mb"),
           FileName(signature, "white", kk_digits, "HighDtc") >>)

(* the sequences over S of length at most n without repetition *)
Arrangements(S, n) ==
    {q \in UNION {[1..m -> S] : m \in 0..n} :
        \A i, j \in DOMAIN q : i # j => q[i] # q[j]}

(* one sequence for every subset of S of at most n elements *)
RECURSIVE SeqOfSet(_)
SeqOfSet(S) ==
    IF S = {} THEN <<>>
    ELSE LET x == CHOOSE y \in S : TRUE IN <<x>> \o SeqOfSet(S \ {x})

SmallSubsets(S, n) == {T \in SUBSET S : Cardinality(T) <= n}

----------------------------------------------------------------------------
(* the selection engine on its own: a registry built by one add_path, a  *)
(* table or two opened by earlier lookups, then one select_table call    *)

(* K, a light-squared bishop and a pawn against the same with a          *)
(* dark-squared bishop                                                   *)
BoardKbpKbp ==
    [white |-> [pawn |-> 1, knight |-> 0, light |-> 1, dark |-> 0,
                rook |-> 0, queen |-> 0, king |-> 1],
     black |-> [pawn |-> 1, knight |-> 0, light |-> 0, dark |-> 1,
                rook |-> 0, queen |-> 0, king |-> 1]]

SigKbpKbp == <<"k","b","p","k","b","p">>

Position(board, turn, castles, ep) ==
    [board |-> board, turn |-> turn, castles |-> castles, ep_square |-> ep]

PosSelect == Position(BoardKbpKbp, "white", FALSE, 0)

(* the bishop-parity pairs the classifier proposes in the model *)
ParityPairs == {<<"Even", "None">>, <<"Odd", "Even">>, <<"None", "None">>}

(* the variants a table directory of the model may be of *)
Variants ==
    {<<"Free", p>> : p \in ParityPairs}
    \cup {<<t, <<"None", "None">> >> : t \in PawnFileTypes \ {"Free"}}

MaxRegistered == 2
MaxParities == 2

(* MB_INFO with every named index applicable *)
MbInfoDefault ==
    [kk_index |-> 0,
     num_parities |-> 0,
     parity_index |-> <<>>,
     pawn_file_type |-> "Free",
     index_bp_11 |-> 110, index_op_11 |-> 111, index_op_21 |-> 121,
     index_op_12 |-> 112, index_op_22 |-> 122, index_dp_22 |-> 222,
     index_op_31 |-> 131, index_op_13 |-> 113, index_op_41 |-> 141,
     index_op_14 |-> 114, index_op_32 |-> 132, index_op_23 |-> 123,
     index_op_33 |-> 133, index_op_42 |-> 142, index_op_24 |-> 124]

IndexFields ==
    {"index_bp_11", "index_op_11", "index_op_21", "index_op_12", "index_op_22",
     "index_dp_22", "index_op_31", "index_op_13", "index_op_41", "index_op_14",
     "index_op_32", "index_op_23", "index_op_33", "index_op_42", "index_op_24"}

OpenFileFields == {"index_op_11", "index_op_22"}

(* which named indices hold the sentinel: none, the two open-file ones,  *)
(* all but those two, or all                                             *)
SentinelSets == {{}, OpenFileFields, IndexFields \ OpenFileFields, IndexFields}

(* the slot of parity_index after the last candidate: present in the     *)
(* array, not part of the slice that is iterated                         *)
SpareSlot == [bishop_parity |-> <<"Odd", "Odd">>, index |-> 399]

MbInfo(pawn_file_type, sentinels, pairs) ==
    [f \in DOMAIN MbInfoDefault |->
        CASE f = "pawn_file_type" -> pawn_file_type
          [] f = "num_parities" -> Len(pairs)
          [] f = "parity_index" ->
                [i \in 1..Len(pairs) |-> [bishop_parity |-> pairs[i], index |-> 300 + i]]
                \o <<SpareSlot>>
          [] f \in sentinels -> ALL_ONES
          [] OTHER -> MbInfoDefault[f]]

MbInfos(types, n) ==
    {MbInfo(t, s, q) : t \in types, s \in SentinelSets, q \in Arrangements(ParityPairs, n)}

(* the classifier outputs of the select specification: every pawn-file   *)
(* type without candidates, and four of the types with candidates        *)
MbInfosSelect ==
    MbInfos(PawnFileTypes, 0) \cup MbInfos({"Free", "Bp1", "Dp2", "Op21"}, MaxParities)

(* the tree of the select specification: the directories of the chosen   *)
(* variants, and one that is always there: the variant of the spare slot *)
TreeSelect(chosen) ==
    [i \in 1..Len(chosen) |-> VariantDir(SigKbpKbp, chosen[i], <<"0">>)]
    \o << VariantDir(SigKbpKbp, <<"Free", <<"Odd", "Odd">> >>, <<"0">>) >>

InitSelect ==
    /\ \E chosen \in SmallSubsets(Variants, MaxRegistered) :
          /\ fs = [r \in Roots |-> IF r = "r1" THEN TreeSelect(SeqOfSet(chosen)) ELSE <<>>]
          /\ tables = add_path(<<>>, "r1", fs["r1"], NoFail).tables
    /\ mbeval_paths = <<"r1">>
    /\ last_add = [root |-> "r1", result |-> Ok(Cardinality(DOMAIN tables)), again |-> FALSE]
    /\ handles = 0
    /\ pc = [t \in Threads |-> "idle"]
    /\ arg = [t \in Threads |-> KeyAbsent]
    /\ ret = [t \in Threads |-> NoRet]
    /\ call = NoCall

(* an earlier lookup of a white-to-move primary table that opened it *)
Lookup(key) ==
    /\ call = NoCall
    /\ key.side = "white" /\ key.table_type = "Mb"
    /\ key.bishop_parity # [white |-> "Odd", black |-> "Odd"]
    /\ tables[key].cell = Uninit
    /\ handles < MaxHandles
    /\ LET r == open_table(Start(tables, handles), key, FALSE) IN
          /\ tables' = r.st.tables
          /\ handles' = r.st.handles
    /\ UNCHANGED <<fs, mbeval_paths, last_add, pc, arg, ret, call>>

(* select_table(pos, mb_info, table_type) from call to return *)
Select(pos, mb_info, table_type, bad) ==
    /\ call = NoCall
    /\ LET r == select_table(Start(tables, handles), pos, mb_info, table_type, bad) IN
          /\ tables' = r.st.tables
          /\ handles' = r.st.handles
          /\ call' = [op |-> "select", pos |-> pos, mb_info |-> mb_info,
                      table_type |-> table_type, bad |-> bad, before |-> tables,
                      result |-> r.result,
                      lookups |-> r.st.lookups, opens |-> r.st.opens]
    /\ UNCHANGED <<fs, mbeval_paths, last_add, pc, arg, ret>>

NextSelect ==
    \/ \E key \in DOMAIN tables : Lookup(key)
    \/ /\ call = NoCall
       /\ \E mb_info \in MbInfosSelect, bad \in BOOLEAN :
             Select(PosSelect, mb_info, "Mb", bad)

SpecSelect == InitSelect /\ [][NextSelect]_vars


----------------------------------------------------------------------------
(* the selection engine's claims, over the recorded select_table call    *)

NoParity == [white |-> "None", black |-> "None"]

(* the key select_table starts from, from the call's inputs *)
BaseKeyOf(c) ==
    TableKey(material(c.pos.board), "Free", NoParity, c.pos.turn,
             c.mb_info.kk_index, c.table_type)

(* the key of the call's i-th bishop-parity candidate *)
ParityKeyOf(c, i) ==
    [BaseKeyOf(c) EXCEPT
        !.bishop_parity = [white |-> c.mb_info.parity_index[i].bishop_parity[1],
                           black |-> c.mb_info.parity_index[i].bishop_parity[2]]]

VariantKeyOf(c, pawn_file_type) ==
    [BaseKeyOf(c) EXCEPT !.pawn_file_type = pawn_file_type]

(* the candidates of the call whose key was registered when it began *)
RegisteredCandidates(c) ==
    {i \in 1..c.mb_info.num_parities : ParityKeyOf(c, i) \in DOMAIN c.before}

(* the call returned the table registered under key, with index; or the  *)
(* table was not open yet and Table::open failed, and it returned the    *)
(* I/O error                                                             *)
Selected(c, key, index) ==
    IF c.bad /\ c.before[key].cell = Uninit
    THEN c.result = Err
    ELSE /\ c.result.ok /\ c.result.val.some
         /\ c.result.val.val.key = key
         /\ c.result.val.val.index = index
         /\ c.result.val.val.table = tables[key].cell
         /\ tables[key].cell > 0
         /\ tables[key].path = c.before[key].path

(* C4: when some candidate's key is registered, select_table returns the *)
(* table of the first such candidate in the classifier's order with that *)
(* candidate's index, having looked up the candidates before it in order *)
(* under pawn-file variant Free and nothing else                         *)
C4_FirstRegisteredCandidateWins ==
    (call.op = "select" /\ RegisteredCandidates(call) # {}) =>
        LET first == CHOOSE i \in RegisteredCandidates(call) :
                        \A j \in RegisteredCandidates(call) : i <= j
        IN /\ Selected(call, ParityKeyOf(call, first),
                       call.mb_info.parity_index[first].index)
           /\ call.lookups = [i \in 1..first |-> ParityKeyOf(call, i)]
           /\ \A i \in 1..first : call.lookups[i].pawn_file_type = "Free"

(* two candidates, the second alone registered, in a registry where the  *)
(* pawn-file path would have found a table too: the second is returned   *)
C4_Witness ==
    /\ call.op = "select"
    /\ call.mb_info.num_parities = 2
    /\ RegisteredCandidates(call) = {2}
    /\ call.mb_info.pawn_file_type = "Bp1"
    /\ call.mb_info.index_op_11 # ALL_ONES
    /\ VariantKeyOf(call, "Op1") \in DOMAIN call.before
    /\ call.result.ok /\ call.result.val.some
    /\ call.result.val.val.index = call.mb_info.parity_index[2].index

(* each pawn-file type's own named index, as the claim names them *)
OwnIndexField ==
    [t \in PawnFileTypes \ {"Free"} |->
        CASE t = "Bp1" -> "index_bp_11" [] t = "Op1" -> "index_op_11"
          [] t = "Op21" -> "index_op_21" [] t = "Op12" -> "index_op_12"
          [] t = "Op22" -> "index_op_22" [] t = "Dp2" -> "index_dp_22"
          [] t = "Op31" -> "index_op_31" [] t = "Op13" -> "index_op_13"
          [] t = "Op41" -> "index_op_41" [] t = "Op14" -> "index_op_14"
          [] t = "Op32" -> "index_op_32" [] t = "Op23" -> "index_op_23"
          [] t = "Op33" -> "index_op_33" [] t = "Op42" -> "index_op_42"
          [] t = "Op24" -> "index_op_24"]

(* the open-file variant and index that stand in for Bp1 and for Dp2 *)
OpenFileOf(t) ==
    IF t = "Bp1" THEN [variant |-> "Op1", index |-> "index_op_11"]
    ELSE [variant |-> "Op22", index |-> "index_op_22"]

(* the open-file table is to be returned for the call *)
OpenFileApplies(c) ==
    /\ c.mb_info.pawn_file_type \in {"Bp1", "Dp2"}
    /\ c.mb_info[OpenFileOf(c.mb_info.pawn_file_type).index] # ALL_ONES
    /\ VariantKeyOf(c, OpenFileOf(c.mb_info.pawn_file_type).variant) \in DOMAIN c.before

(* C5: when no candidate's key is registered and the type is not Free:   *)
(* for Bp1 (Dp2) with an applicable index_op_11 (index_op_22) and an Op1 *)
(* (Op22) table registered, that table with that index; otherwise the    *)
(* type's own index with the table of the type's own variant, none when  *)
(* that index is the sentinel or no such table is registered             *)
C5_PawnFileDispatch ==
    (/\ call.op = "select"
     /\ RegisteredCandidates(call) = {}
     /\ call.mb_info.pawn_file_type # "Free") =>
        LET t == call.mb_info.pawn_file_type
            own == call.mb_info[OwnIndexField[t]]
        IN IF OpenFileApplies(call)
           THEN Selected(call, VariantKeyOf(call, OpenFileOf(t).variant),
                         call.mb_info[OpenFileOf(t).index])
           ELSE IF own # ALL_ONES /\ VariantKeyOf(call, t) \in DOMAIN call.before
           THEN Selected(call, VariantKeyOf(call, t), own)
           ELSE call.result = Ok(None)

(* Bp1 with a candidate that is not registered, tables registered for    *)
(* Op1 and for Bp1, and index_op_11 applicable: the Op1 table is chosen  *)
C5_Witness ==
    /\ call.op = "select"
    /\ call.mb_info.pawn_file_type = "Bp1"
    /\ call.mb_info.num_parities >= 1
    /\ RegisteredCandidates(call) = {}
    /\ VariantKeyOf(call, "Bp1") \in DOMAIN call.before
    /\ OpenFileApplies(call)
    /\ call.result.ok /\ call.result.val.some
    /\ call.result.val.val.key.pawn_file_type = "Op1"
    /\ call.result.val.val.index = call.mb_info.index_op_11


----------------------------------------------------------------------------
(* the probe orchestrator *)

PieceKinds == {"pawn", "knight", "light", "dark", "rook", "queen", "king"}

(* Bitboard::count of the pieces of one colour *)
Count(board, color) ==
    board[color].pawn + board[color].knight + board[color].light
    + board[color].dark + board[color].rook + board[color].queen
    + board[color].king

(* shakmaty Position::has_insufficient_material(color) *)
has_insufficient_material(board, color) ==
    LET us == board[color]
        them == board[Other(color)]
    IN IF us.pawn + us.rook + us.queen > 0 THEN FALSE
       ELSE IF us.knight > 0
       THEN /\ Count(board, color) <= 2
            /\ them.pawn + them.knight + them.light + them.dark + them.rook = 0
       ELSE IF us.light + us.dark > 0
       THEN /\ us.light + them.light = 0 \/ us.dark + them.dark = 0
            /\ us.knight + them.knight = 0
            /\ us.pawn + them.pawn = 0
       ELSE TRUE

(* shakmaty Position::is_insufficient_material *)
is_insufficient_material(pos) ==
    \A color \in Colors : has_insufficient_material(pos.board, color)

(* lines 464-470 *)
strength(board, color) ==
    board[color].pawn
    + (board[color].knight) * 3
    + (board[color].light + board[color].dark) * 3
    + (board[color].rook) * 5
    + (board[color].queen) * 9

(* the vertical mirror of a square 0..63 (a1 = 0); 0 stands for no square *)
MirrorSquare(sq) == IF sq = 0 THEN 0 ELSE (7 - (sq \div 8)) * 8 + (sq % 8)

(* one side's pieces after the vertical mirror: bishops change square colour *)
MirrorPieces(pieces) == [pieces EXCEPT !.light = pieces.dark, !.dark = pieces.light]

(* lines 472-478: Setup::into_mirrored: colours, side to move and        *)
(* en-passant square swapped                                             *)
flip_position(pos) ==
    [board |-> [white |-> MirrorPieces(pos.board.black),
                black |-> MirrorPieces(pos.board.white)],
     turn |-> Other(pos.turn),
     castles |-> pos.castles,
     ep_square |-> MirrorSquare(pos.ep_square)]

(* Value and SideValue *)
Draw == [v |-> "Draw"]
Dtc(n) == [v |-> "Dtc", n |-> n]
Unresolved == [v |-> "Unresolved"]
MaybeHighDtc == [v |-> "MaybeHighDtc"]

(* Color::fold_wb(1, -1) *)
fold_wb(color) == IF color = "white" THEN 1 ELSE -1

(* the overflow marker taken for an unresolved value *)
FromMbValueOverflowUnresolved(value) ==
    IF value.v = "Dtc" THEN Ok(Some(value)) ELSE Ok(Some(Unresolved))

(* lines 212-216: what probe_side makes of the value read *)
FromMbValue(value) ==
    CASE value.v = "Dtc" -> Ok(Some(Dtc(value.n)))
      [] value.v = "MaybeHighDtc" -> Ok(None)
      [] value.v = "Unresolved" -> Ok(Some(Unresolved))

(* a selection miss taken for an unresolved value *)
FromSelectMissUnresolved == Ok(Some(Unresolved))

(* lines 208-210: what probe_side returns when select_table returns None *)
FromSelectMiss == Ok(None)

(* one single-sided probe in the call's record *)
Side(st, pos, why, result) ==
    [st |-> [st EXCEPT !.sides = Append(@, [pos |-> pos, why |-> why, result |-> result])],
     result |-> result]

(* lines 208-216: probe_side after select_table gave sel *)
AfterSelect(sel, pos, env) ==
    IF ~sel.result.ok THEN Side(sel.st, pos, "open_error", Err)
    ELSE IF ~sel.result.val.some THEN Side(sel.st, pos, "no_table", FromSelectMiss)
    ELSE
      LET read == [sel.st EXCEPT !.reads = @ + 1]
          value == env.read[sel.result.val.val.key.side]
      IN IF value.v = "Err" THEN Side(read, pos, "read_error", Err)
         ELSE Side(read, pos,
                   CASE value.v = "Dtc" -> "dtc"
                     [] value.v = "MaybeHighDtc" -> "overflow"
                     [] value.v = "Unresolved" -> "unresolved",
                   FromMbValue(value))

(* a single-sided probe that asks the classifier for every position *)
probe_side_no_shortcut(st, pos, env) ==
    IF env.classify[pos.turn].status # 0
    THEN Side([st EXCEPT !.classified = @ + 1], pos, "classifier_failed", Ok(None))
    ELSE AfterSelect(select_table([st EXCEPT !.classified = @ + 1], pos,
                                  env.classify[pos.turn].mb_info, "Mb", env.bad),
                     pos, env)

(* Tablebase::probe_side.  env.classify[turn] is what mbeval_get_mb_info *)
(* returns for the position with that side to move, env.read[side] what  *)
(* read_mb returns from the selected table of that side to move, and     *)
(* env.bad whether Table::open fails                                     *)
probe_side(st, pos, env) ==
    IF ~(Count(pos.board, "white") > 1)
    THEN Side(st, pos, "lone_king", Ok(Some(Unresolved)))
    ELSE IF env.classify[pos.turn].status # 0
    THEN Side([st EXCEPT !.classified = @ + 1], pos, "classifier_failed", Ok(None))
    ELSE AfterSelect(select_table([st EXCEPT !.classified = @ + 1], pos,
                                  env.classify[pos.turn].mb_info, "Mb", env.bad),
                     pos, env)

(* a probe that leaves the position as the caller gave it *)
NoNormalize(pos) == pos

(* lines 230-234: the stronger side becomes white *)
Normalize(pos) ==
    IF strength(pos.board, "white") < strength(pos.board, "black")
    THEN flip_position(pos)
    ELSE pos

(* the guard without the castling rights *)
OutOfCoverageByCount(pos) ==
    Count(pos.board, "white") + Count(pos.board, "black") > 9

(* line 224 *)
OutOfCoverage(pos) ==
    Count(pos.board, "white") + Count(pos.board, "black") > 9 \/ pos.castles

(* the distance taken as it was read, whoever is to move *)
Unsigned(n, pos) == Dtc(n)

(* lines 238-240 and 248: the value for a distance read for position pos *)
Signed(n, pos) == Dtc(n * fold_wb(pos.turn))

(* lines 246-250: the match on the second single-sided probe, of flipped *)
AfterSecond(second, flipped) ==
    IF ~second.result.ok THEN [st |-> second.st, result |-> Err]
    ELSE IF ~second.result.val.some THEN [st |-> second.st, result |-> Ok(None)]
    ELSE IF second.result.val.val.v = "Dtc"
    THEN [st |-> second.st,
          result |-> Ok(Some(Signed(second.result.val.val.n, flipped)))]
    ELSE [st |-> second.st, result |-> Ok(Some(Draw))]

(* a first single-sided probe without data followed by the second *)
AfterFirstTriesBoth(first, pos, env) ==
    IF ~first.result.ok THEN [st |-> first.st, result |-> Err]
    ELSE IF first.result.val.some /\ first.result.val.val.v = "Dtc"
    THEN [st |-> first.st, result |-> Ok(Some(Signed(first.result.val.val.n, pos)))]
    ELSE AfterSecond(probe_side(first.st, flip_position(pos), env), flip_position(pos))

(* lines 236-246: the match on the first single-sided probe, of pos *)
AfterFirst(first, pos, env) ==
    IF ~first.result.ok THEN [st |-> first.st, result |-> Err]
    ELSE IF ~first.result.val.some THEN [st |-> first.st, result |-> Ok(None)]
    ELSE IF first.result.val.val.v = "Dtc"
    THEN [st |-> first.st, result |-> Ok(Some(Signed(first.result.val.val.n, pos)))]
    ELSE AfterSecond(probe_side(first.st, flip_position(pos), env), flip_position(pos))

(* lines 236-251: the two single-sided probes on the normalised position *)
ProbeSides(st, pos, env) == AfterFirst(probe_side(st, pos, env), pos, env)

(* the two guards in the other order *)
probe_coverage_first(st, pos, env) ==
    IF OutOfCoverage(pos) THEN [st |-> st, result |-> Ok(None)]
    ELSE IF is_insufficient_material(pos) THEN [st |-> st, result |-> Ok(Some(Draw))]
    ELSE ProbeSides(st, Normalize(pos), env)

(* Tablebase::probe *)
probe(st, pos, env) ==
    IF is_insufficient_material(pos) THEN [st |-> st, result |-> Ok(Some(Draw))]
    ELSE IF OutOfCoverage(pos) THEN [st |-> st, result |-> Ok(None)]
    ELSE ProbeSides(st, Normalize(pos), env)


----------------------------------------------------------------------------
(* the probe orchestrator on its own: a registry built by one add_path,  *)
(* then one probe call                                                   *)

NoPieces ==
    [pawn |-> 0, knight |-> 0, light |-> 0, dark |-> 0, rook |-> 0, queen |-> 0,
     king |-> 1]

Board(white, black) ==
    [white |-> [k \in PieceKinds |-> IF k \in DOMAIN white THEN white[k] ELSE NoPieces[k]],
     black |-> [k \in PieceKinds |-> IF k \in DOMAIN black THEN black[k] ELSE NoPieces[k]]]

(* the materials that tables are registered for, with the signatures of  *)
(* their table directories in both orientations                          *)
Focus ==
    { [board |-> Board([pawn |-> 1], <<>>),
       sig |-> <<"k","p","k">>, mirror |-> <<"k","k","p">>],
      [board |-> Board([rook |-> 1], [rook |-> 1]),
       sig |-> <<"k","r","k","r">>, mirror |-> <<"k","r","k","r">>],
      [board |-> Board([queen |-> 1], [rook |-> 1]),
       sig |-> <<"k","q","k","r">>, mirror |-> <<"k","r","k","q">>],
      [board |-> Board([pawn |-> 1], [pawn |-> 1]),
       sig |-> <<"k","p","k","p">>, mirror |-> <<"k","p","k","p">>] }

(* boards no table is registered for: bare kings; king and bishop        *)
(* against king; ten pieces with queens, rooks and pawns; ten pieces of  *)
(* which eight are bishops on squares of one colour                      *)
BoardKK == Board(<<>>, <<>>)
BoardKBK == Board([light |-> 1], <<>>)
BoardTen == Board([queen |-> 1, rook |-> 2, pawn |-> 1], [queen |-> 1, rook |-> 2, pawn |-> 1])
BoardTenBishops == Board([light |-> 4], [light |-> 4])

(* the en-passant squares of the model: e6 with white to move, e3 with black *)
EpSquare(turn) == IF turn = "white" THEN 44 ELSE 20

(* the positions over a board: either side to move, castling rights only *)
(* with rooks, an en-passant square only with pawns on both sides        *)
PositionsOver(board) ==
    {Position(board, turn, castles, ep) :
        turn \in Colors,
        castles \in IF board.white.rook + board.black.rook > 0 THEN BOOLEAN ELSE {FALSE},
        ep \in {0}} 
    \cup {Position(board, turn, FALSE, EpSquare(turn)) :
            turn \in IF board.white.pawn > 0 /\ board.black.pawn > 0 THEN Colors ELSE {}}

PositionsProbe ==
    UNION {PositionsOver(f.board) \cup PositionsOver(flip_position(Position(f.board, "white", FALSE, 0)).board) :
              f \in Focus}
    \cup UNION {PositionsOver(b) : b \in {BoardKK, BoardKBK, BoardTen, BoardTenBishops}}

(* what mbeval_get_mb_info returns: a non-zero status, or 0 and an MB_INFO *)
Classified(mb_info) == [status |-> 0, mb_info |-> mb_info]
ClassifierFailed == [status |-> 1]

ClassifierOutputs ==
    {ClassifierFailed,
     Classified(MbInfo("Op1", {}, <<>>)),
     Classified(MbInfo("Op1", IndexFields, <<>>)),
     Classified(MbInfo("Free", {}, << <<"Even", "None">> >>))}

ReadFailed == [v |-> "Err"]

(* what read_mb returns from the tables of one side to move *)
ReadOutputs(side) ==
    {ReadFailed, Dtc(IF side = "white" THEN 7 ELSE 200), MaybeHighDtc, Unresolved}

Envs ==
    {[classify |-> c, read |-> r, bad |-> b] :
        c \in [Colors -> ClassifierOutputs],
        r \in {f \in [Colors -> UNION {ReadOutputs(x) : x \in Colors}] :
                  \A x \in Colors : f[x] \in ReadOutputs(x)},
        b \in BOOLEAN}

VariantsProbe == {<<"Op1", <<"None", "None">> >>, <<"Free", <<"Even", "None">> >>}

InitProbe ==
    /\ \E f \in Focus, v \in VariantsProbe : \E sigs \in SUBSET {f.sig, f.mirror} :
          /\ fs = [r \in Roots |->
                      IF r = "r1"
                      THEN SeqOfSet({VariantDir(sig, v, <<"0">>) : sig \in sigs})
                      ELSE <<>>]
          /\ tables = add_path(<<>>, "r1", fs["r1"], NoFail).tables
    /\ mbeval_paths = <<"r1">>
    /\ last_add = [root |-> "r1", result |-> Ok(Cardinality(DOMAIN tables)), again |-> FALSE]
    /\ handles = 0
    /\ pc = [t \in Threads |-> "idle"]
    /\ arg = [t \in Threads |-> KeyAbsent]
    /\ ret = [t \in Threads |-> NoRet]
    /\ call = NoCall

(* probe(pos) from call to return *)
Probe(pos, env) ==
    /\ call = NoCall
    /\ LET r == probe(Start(tables, handles), pos, env) IN
          /\ tables' = r.st.tables
          /\ handles' = r.st.handles
          /\ call' = [op |-> "probe", pos |-> pos, env |-> env, before |-> tables,
                      result |-> r.result,
                      lookups |-> r.st.lookups, opens |-> r.st.opens,
                      classified |-> r.st.classified, reads |-> r.st.reads,
                      sides |-> r.st.sides]
    /\ UNCHANGED <<fs, mbeval_paths, last_add, pc, arg, ret>>

NextProbe ==
    /\ call = NoCall
    /\ \E pos \in PositionsProbe, env \in Envs : Probe(pos, env)

SpecProbe == InitProbe /\ [][NextProbe]_vars


----------------------------------------------------------------------------
(* the probe orchestrator's claims, over the recorded probe call         *)

(* the call made no classifier call, no lookup, no open and no read, and *)
(* left the registry as it was                                           *)
NoAccess(c) ==
    /\ c.classified = 0
    /\ c.lookups = <<>>
    /\ c.opens = <<>>
    /\ c.reads = 0
    /\ c.sides = <<>>
    /\ tables = c.before

PieceCount(pos) == Count(pos.board, "white") + Count(pos.board, "black")

(* C6: a probe of an insufficient-material position returns Draw and     *)
(* makes no classifier call, lookup, open or read                        *)
C6_InsufficientMaterialIsDraw ==
    (call.op = "probe" /\ is_insufficient_material(call.pos)) =>
        /\ call.result = Ok(Some(Draw))
        /\ NoAccess(call)

(* ten pieces, eight of them bishops on one square colour, probed over a *)
(* registry that holds tables, with a classifier that would answer       *)
C6_Witness ==
    /\ call.op = "probe"
    /\ is_insufficient_material(call.pos)
    /\ PieceCount(call.pos) > 2
    /\ DOMAIN call.before # {}
    /\ \A c \in Colors : call.env.classify[c].status = 0
    /\ call.result = Ok(Some(Draw))

(* C7 as stated: more than 9 pieces or castling rights give none with no *)
(* access                                                                *)
C7_OutOfCoverageIsNone ==
    (call.op = "probe" /\ (PieceCount(call.pos) > 9 \/ call.pos.castles)) =>
        /\ call.result = Ok(None)
        /\ NoAccess(call)

(* C7 amended: the same for positions that are not insufficient material *)
C7_OutOfCoverageIsNoneUnlessInsufficient ==
    (/\ call.op = "probe"
     /\ ~is_insufficient_material(call.pos)
     /\ (PieceCount(call.pos) > 9 \/ call.pos.castles)) =>
        /\ call.result = Ok(None)
        /\ NoAccess(call)

(* rook against rook with castling rights, 4 pieces, tables registered   *)
(* and a classifier that would answer: none                              *)
C7_Witness ==
    /\ call.op = "probe"
    /\ call.pos.castles
    /\ PieceCount(call.pos) <= 9
    /\ DOMAIN call.before # {}
    /\ \A c \in Colors : call.env.classify[c].status = 0
    /\ call.result = Ok(None)

(* no Table::open and no read_mb of the environment fails *)
NoIoError(env) == ~env.bad /\ \A c \in Colors : env.read[c].v # "Err"

(* the probe of the mirrored position, over the registry, classifier and *)
(* table contents of the recorded call                                   *)
MirrorCall(c) == probe(Start(c.before, 0), flip_position(c.pos), c.env)

(* C8, with any sign convention for the distances: over the same         *)
(* registry, classifier and table contents and with no I/O error, the    *)
(* probes of a position and of its colour-mirrored counterpart are both  *)
(* draws, or both none, or both distances of the same magnitude          *)
C8_MirrorAgreesUpToSign ==
    (call.op = "probe" /\ NoIoError(call.env)) =>
        LET other == MirrorCall(call).result IN
        /\ call.result = Ok(Some(Draw)) <=> other = Ok(Some(Draw))
        /\ call.result = Ok(None) <=> other = Ok(None)
        /\ \A d \in 0..255 :
              (call.result \in {Ok(Some(Dtc(d))), Ok(Some(Dtc(-d)))})
                  <=> (other \in {Ok(Some(Dtc(d))), Ok(Some(Dtc(-d)))})

(* C8, the case that fails: the sides of equal strength, a distance for  *)
(* the position and none for its mirror image                            *)
C8_EqualStrengthDisagree ==
    /\ call.op = "probe"
    /\ NoIoError(call.env)
    /\ strength(call.pos.board, "white") = strength(call.pos.board, "black")
    /\ call.result.val.some
    /\ call.result.val.val.v = "Dtc"
    /\ MirrorCall(call).result = Ok(None)

(* C8, the case that holds: with sides of unequal strength the mirror    *)
(* image is probed through the same normalised position and gets the    *)
(* same value, sign included                                            *)
C8_UnequalStrengthSame ==
    (/\ call.op = "probe"
     /\ strength(call.pos.board, "white") # strength(call.pos.board, "black")) =>
        MirrorCall(call).result = call.result

(* the single-sided probes of a call that ended for one of the reasons *)
SidesEnding(c, reasons) == {i \in 1..Len(c.sides) : c.sides[i].why \in reasons}

(* C9: probe returns Draw only for insufficient material or when both    *)
(* single-sided probes gave unresolved, from the lone-king shortcut or   *)
(* from the table; a performed single-sided probe that hits a classifier *)
(* failure, a selection miss or an overflow marker makes probe return    *)
(* none                                                                  *)
C9_NoInformationIsNeverDraw ==
    call.op = "probe" =>
        /\ call.result = Ok(Some(Draw)) =>
              \/ is_insufficient_material(call.pos)
              \/ /\ Len(call.sides) = 2
                 /\ \A i \in 1..2 :
                       /\ call.sides[i].why \in {"lone_king", "unresolved"}
                       /\ call.sides[i].result = Ok(Some(Unresolved))
        /\ SidesEnding(call, {"classifier_failed", "no_table", "overflow"}) # {}
              => call.result = Ok(None)

(* the stronger side's table gives unresolved and the read for the other *)
(* side gives the overflow marker: none, not Draw                        *)
C9_Witness ==
    /\ call.op = "probe"
    /\ Len(call.sides) = 2
    /\ call.sides[1].why = "unresolved"
    /\ call.sides[2].why = "overflow"
    /\ call.result = Ok(None)

(* C10 as stated: a single-sided probe whose selection fails or whose    *)
(* read gives the overflow marker is unresolved, and a first one is      *)
(* followed by the probe of the other side                               *)
C10_MissAndOverflowAreUnresolved ==
    call.op = "probe" =>
        \A i \in SidesEnding(call, {"no_table", "overflow"}) :
            /\ call.sides[i].result = Ok(Some(Unresolved))
            /\ i = 1 => Len(call.sides) = 2

(* C10 amended: such a single-sided probe is no data, as one whose       *)
(* classifier call fails is: it is the last of the call, and the call    *)
(* returns none                                                          *)
C10_MissAndOverflowAreNoData ==
    call.op = "probe" =>
        \A i \in SidesEnding(call, {"classifier_failed", "no_table", "overflow"}) :
            /\ call.sides[i].result = Ok(None)
            /\ i = Len(call.sides)
            /\ call.result = Ok(None)

(* the classifier answers for the first side, no table is registered for *)
(* what it selects although the other side's table is, and the call ends *)
(* there with none                                                       *)
C10_Witness ==
    /\ call.op = "probe"
    /\ Len(call.sides) = 1
    /\ call.sides[1].why = "no_table"
    /\ call.classified = 1
    /\ \E k \in DOMAIN call.before : k.side = Other(call.sides[1].pos.turn)
    /\ call.env.classify[Other(call.sides[1].pos.turn)].status = 0
    /\ call.result = Ok(None)

(* the last single-sided probe of a call *)
LastSide(c) == c.sides[Len(c.sides)]

(* the side of the caller's position that the single-sided probe s was   *)
(* made for: a single-sided probe reads the table for the white side of  *)
(* the position it is given, which is the caller's position or its       *)
(* mirror image                                                          *)
WinnerFor(c, s) == IF s.pos = c.pos THEN "white" ELSE "black"

LonePawn == Board([pawn |-> 1], <<>>)
LonePawnBlack == Board(<<>>, [pawn |-> 1])

(* C11: a distance returned by probe is the distance n read by the last  *)
(* single-sided probe, positive iff the side to move in the caller's     *)
(* position is the side that probe was made for, negative iff it is the  *)
(* other; for kings and one pawn, the pawn's side to move and a read of  *)
(* n from its table, probe returns +n, whichever colour the pawn has     *)
C11_SignFollowsSideToMove ==
    (call.op = "probe" /\ call.result.ok /\ call.result.val.some
        /\ call.result.val.val.v = "Dtc") =>
        LET s == LastSide(call)
            d == call.result.val.val.n
        IN /\ s.why = "dtc"
           /\ s.pos \in {call.pos, flip_position(call.pos)}
           /\ s.result.val.val.n > 0
           /\ d > 0 <=> call.pos.turn = WinnerFor(call, s)
           /\ d < 0 <=> call.pos.turn # WinnerFor(call, s)
           /\ d \in {s.result.val.val.n, -s.result.val.val.n}
           /\ (/\ call.pos.board \in {LonePawn, LonePawnBlack}
               /\ call.pos.turn = (IF call.pos.board = LonePawn THEN "white" ELSE "black")
               /\ Len(call.sides) = 1)
              => d = s.result.val.val.n

(* the caller's position has the pawn black and black to move; it is     *)
(* probed mirrored, the white-to-move table gives 7 and probe returns +7 *)
C11_Witness ==
    /\ call.op = "probe"
    /\ call.pos.board = LonePawnBlack
    /\ call.pos.turn = "black"
    /\ Len(call.sides) = 1
    /\ call.sides[1].pos = flip_position(call.pos)
    /\ call.sides[1].result = Ok(Some(Dtc(7)))
    /\ call.result = Ok(Some(Dtc(7)))

----------------------------------------------------------------------------
(* further claims on the registry *)

(* C12: the count that a successful add_path returns is the number of    *)
(* keys in the registry after the call that were not in it before        *)
C12_CountIsNewKeys ==
    [][(/\ Len(mbeval_paths') = Len(mbeval_paths) + 1
        /\ last_add'.result.ok)
       => last_add'.result.val = Cardinality(DOMAIN tables' \ DOMAIN tables)]_vars

(* C13: when Table::open fails, the caller gets the error and the entry  *)
(* is left with an empty cell, on which the next open_table runs         *)
(* Table::open again; once a retry has succeeded, the entry has seen one *)
(* open more than it has seen failures and every caller that is handed a *)
(* table of the entry is handed the one in its cell                      *)
C13_FailedOpenNotCached ==
    [][/\ \A t \in Threads :
            (pc[t] = "opening" /\ pc'[t] = "returned" /\ ~ret'[t].ok) =>
                /\ arg[t] \in DOMAIN tables'
                /\ tables'[arg[t]].cell = Uninit
                /\ tables'[arg[t]].fails = tables[arg[t]].fails + 1
                /\ get_or_try_init(tables'[arg[t]].cell) = "init"
       /\ \A k \in DOMAIN tables' :
            (tables'[k].fails > 0 /\ tables'[k].cell > 0) =>
                /\ tables'[k].opens = tables'[k].fails + 1
                /\ \A t \in Threads :
                      (pc'[t] = "returned" /\ arg'[t] = k /\ ret'[t].ok) =>
                          ret'[t] = Ok(Some(tables'[k].cell))]_vars

(* an entry whose first Table::open failed and whose second succeeded,   *)
(* with both callers holding the table of the second                     *)
C13_Witness ==
    \E k \in DOMAIN tables :
        /\ tables[k].fails = 1
        /\ tables[k].opens = 2
        /\ tables[k].cell > 0
        /\ \A t \in Threads :
              pc[t] = "returned" /\ arg[t] = k /\ ret[t] = Ok(Some(tables[k].cell))

----------------------------------------------------------------------------
(* the naming decoder on its own: one directory name is encoded from a   *)
(* triple and decoded by parse_dirname                                   *)

(* n times the letter c *)
Letters(c, n) == [i \in 1..n |-> c]

(* one side of a signature: the king, then the other pieces *)
SideSignature(pieces) ==
    <<"k">> \o Letters("q", pieces.queen) \o Letters("r", pieces.rook)
            \o Letters("b", pieces.bishop) \o Letters("n", pieces.knight)
            \o Letters("p", pieces.pawn)

(* '<white pieces><black pieces>' *)
Signature(m) == SideSignature(m.white) \o SideSignature(m.black)

Pieces(m) == Len(Signature(m))

MaxPerRole == 1

NonKings == Roles \ {"king"}

(* one side with its king and n pieces more of one role *)
OneRole(role, n) == [r \in Roles |-> IF r = "king" THEN 1 ELSE IF r = role THEN n ELSE 0]

(* materials with one king a side and at most MaxMaterialLen pieces: up  *)
(* to MaxPerRole of every role on either side, and those that fill the   *)
(* bound with pieces of one role on one side                             *)
MaterialsDecode ==
    {m \in [Colors -> {[r \in Roles |-> IF r = "king" THEN 1 ELSE f[r]] :
                          f \in [NonKings -> 0..MaxPerRole]}] :
        Pieces(m) <= MaxMaterialLen}
    \cup {[white |-> OneRole(r, MaxMaterialLen - 2), black |-> OneRole(r, 0)] : r \in NonKings}
    \cup {[white |-> OneRole(r, 0), black |-> OneRole(r, MaxMaterialLen - 2)] : r \in NonKings}

(* the valid triples: a pawn-file variant other than free only with both *)
(* parities none                                                         *)
Triples ==
    {[material |-> m, pawn_file_type |-> t, bishop_parity |-> b] :
        m \in MaterialsDecode, t \in PawnFileTypes,
        b \in [Colors -> BishopParities]}

ValidTriples ==
    {x \in Triples :
        x.pawn_file_type # "Free" => \A c \in Colors : x.bishop_parity[c] = "None"}

EncodeDirname(x) ==
    DirName(Signature(x.material), x.pawn_file_type,
            <<x.bishop_parity.white, x.bishop_parity.black>>)

InitDecode ==
    /\ fs = [r \in Roots |-> <<>>]
    /\ tables = <<>>
    /\ mbeval_paths = <<>>
    /\ last_add = [root |-> "", result |-> Err, again |-> FALSE]
    /\ handles = 0
    /\ pc = [t \in Threads |-> "idle"]
    /\ arg = [t \in Threads |-> KeyAbsent]
    /\ ret = [t \in Threads |-> NoRet]
    /\ call = NoCall

(* parse_dirname on the name of the triple x *)
Decode(x) ==
    /\ call' = [op |-> "parse_dirname", triple |-> x, name |-> EncodeDirname(x),
                result |-> parse_dirname(EncodeDirname(x))]
    /\ UNCHANGED <<fs, tables, mbeval_paths, last_add, handles, pc, arg, ret>>

NextDecode ==
    call = NoCall /\ \E x \in ValidTriples : Decode(x)

SpecDecode == InitDecode /\ [][NextDecode]_vars

(* C14: parse_dirname of the name encoded from a valid triple gives the  *)
(* triple back                                                           *)
C14_DirnameRoundTrip ==
    call.op = "parse_dirname" => call.result = Some(call.triple)

(* a name of nine pieces with the last pawn-file suffix of the stripping *)
(* order, decoded to its triple                                          *)
C14_Witness ==
    /\ call.op = "parse_dirname"
    /\ Pieces(call.triple.material) = MaxMaterialLen
    /\ call.triple.pawn_file_type = "Op24"
    /\ call.result = Some(call.triple)

----------------------------------------------------------------------------
(* add_path on its own: a registry that is empty or was built by an      *)
(* add_path of the second root, then one add_path of the first root,     *)
(* which may meet a failing directory read                               *)

(* directories whose names are role letters but no signature of two      *)
(* kings, with files of the same letters                                 *)
DirQ == Dir(<<"q">> \o OUT, << <<"q","_","w","_","0",".","m","b">> >>)

DirKqkk ==
    Dir(<<"k","q","k","k">> \o OUT,
        << <<"k","q","k","k","_","b","_","1",".","m","b">>,
           <<"k","q","k","_","b","_","1",".","m","b">> >>)

DirsScan == {DirKpk, DirKkp, DirKbkb, DirJunk, DirQ, DirKqkk}

MaxScanDirs == 2

TreesScan == Arrangements(DirsScan, MaxScanDirs)

(* the registry that one add_path of the second root builds *)
Built(tree) == add_path(<<>>, "r2", tree, NoFail)

InitScanOver(tree1, tree2, built) ==
    /\ fs = [r \in Roots |-> IF r = "r1" THEN tree1 ELSE tree2]
    /\ tables = built.tables
    /\ mbeval_paths = <<"r2">>
    /\ last_add = [root |-> "r2", result |-> built.result, again |-> FALSE]
    /\ handles = 0
    /\ pc = [t \in Threads |-> "idle"]
    /\ arg = [t \in Threads |-> KeyAbsent]
    /\ ret = [t \in Threads |-> NoRet]
    /\ call = NoCall

InitScan ==
    \E tree1 \in TreesScan, tree2 \in TreesR2 : InitScanOver(tree1, tree2, Built(tree2))

(* add_path(root) returns r, with the call on record *)
Scanned(root, fail, r) ==
    /\ mbeval_paths' = Append(mbeval_paths, root)
    /\ tables' = r.tables
    /\ last_add' = [root |-> root, result |-> r.result,
                     again |-> last_add.root = root /\ last_add.result.ok]
    /\ call' = [op |-> "add_path", root |-> root, fail |-> fail, before |-> tables,
                forwarded |-> mbeval_paths, result |-> r.result]
    /\ UNCHANGED <<fs, handles, pc, arg, ret>>

Scan(root, fail) == Scanned(root, fail, add_path(tables, root, fs[root], fail))

NextScan ==
    call = NoCall /\ \E fail \in FailPoints(fs["r1"]) : Scan("r1", fail)

SpecScan == InitScan /\ [][NextScan]_vars

(* the directory entries that a scan reads before it fails at the point  *)
(* fail: the directories before directory fail.d, and of that directory  *)
(* the files before file fail.f                                          *)
ReadBefore(tree, fail) ==
    [i \in 1..(IF fail.f = 0 THEN fail.d - 1 ELSE fail.d) |->
        IF i < fail.d THEN tree[i]
        ELSE [tree[i] EXCEPT !.files = SubSeq(@, 1, fail.f - 1)]]

(* C15: an add_path that meets a failing directory read returns the      *)
(* error, has forwarded the root to the classifier, keeps every entry    *)
(* the registry had, and leaves the registry as a whole scan of the      *)
(* entries read before the failure leaves it                             *)
C15_FailedScanKeepsPrefix ==
    (call.op = "add_path" /\ call.fail # NoFail) =>
        /\ call.result = Err
        /\ last_add.result = Err
        /\ mbeval_paths = Append(call.forwarded, call.root)
        /\ \A k \in DOMAIN call.before : k \in DOMAIN tables
        /\ tables = add_path(call.before, call.root,
                             ReadBefore(fs[call.root], call.fail), NoFail).tables

(* the read of the second file of a directory fails after the first file *)
(* was registered, over a registry that held another key                 *)
C15_Witness ==
    /\ call.op = "add_path"
    /\ call.fail.f = 2
    /\ call.result = Err
    /\ call.before # <<>>
    /\ DOMAIN tables # DOMAIN call.before
    /\ mbeval_paths = <<"r2", "r1">>

----------------------------------------------------------------------------
(* further claims on the probe orchestrator *)

(* the call went past the two guards of probe *)
Covered(c) == ~is_insufficient_material(c.pos) /\ ~OutOfCoverage(c.pos)

(* the position with the stronger side white *)
StrongerWhite(pos) ==
    IF strength(pos.board, "black") > strength(pos.board, "white")
    THEN flip_position(pos)
    ELSE pos

(* what probe makes of the outcome of its last single-sided probe s *)
Combined(s) ==
    IF ~s.result.ok THEN Err
    ELSE IF ~s.result.val.some THEN Ok(None)
    ELSE IF s.result.val.val = Unresolved THEN Ok(Some(Draw))
    ELSE Ok(Some(Dtc(s.result.val.val.n * fold_wb(s.pos.turn))))

(* C16: the first single-sided probe is on the normalised position; the  *)
(* second is made, on its mirror image, exactly when the first gave      *)
(* unresolved, and without it the call has looked up, opened and read    *)
(* only for the first; a distance or no data from the first is returned  *)
(* at once; unresolved then unresolved is Draw, unresolved then a        *)
(* distance is that signed distance, unresolved then no data is none     *)
C16_SecondProbeOnlyAfterUnresolved ==
    (call.op = "probe" /\ Covered(call)) =>
        /\ Len(call.sides) \in {1, 2}
        /\ call.sides[1].pos = StrongerWhite(call.pos)
        /\ Len(call.sides) = 2 <=> call.sides[1].result = Ok(Some(Unresolved))
        /\ Len(call.sides) = 2 => call.sides[2].pos = flip_position(call.sides[1].pos)
        /\ Len(call.sides) = 1 =>
              /\ call.classified <= 1
              /\ call.reads <= 1
              /\ \A i \in 1..Len(call.lookups) :
                    call.lookups[i].side = call.sides[1].pos.turn
        /\ call.result = Combined(LastSide(call))

(* the first table read gives unresolved, the second a distance *)
C16_Witness ==
    /\ call.op = "probe"
    /\ Len(call.sides) = 2
    /\ call.sides[1].why = "unresolved"
    /\ call.sides[2].why = "dtc"
    /\ call.reads = 2
    /\ call.result = Ok(Some(Dtc(call.sides[2].result.val.val.n
                                    * fold_wb(call.sides[2].pos.turn))))

----------------------------------------------------------------------------
(* further claims on the selection engine *)

(* the index that the call's pawn-file type resolves to *)
ResolvedIndex(c) ==
    IF c.mb_info.pawn_file_type = "Free" THEN ALL_ONES
    ELSE c.mb_info[OwnIndexField[c.mb_info.pawn_file_type]]

(* the lookup of the open-file variant that the call makes for Bp1 and   *)
(* Dp2 when the open-file index is applicable                            *)
OpenFileLookup(c) ==
    IF /\ c.mb_info.pawn_file_type \in {"Bp1", "Dp2"}
       /\ c.mb_info[OpenFileOf(c.mb_info.pawn_file_type).index] # ALL_ONES
    THEN <<VariantKeyOf(c, OpenFileOf(c.mb_info.pawn_file_type).variant)>>
    ELSE <<>>

(* C17: when no candidate's key is registered, no open-file table is     *)
(* returned and the resolved index is the sentinel, select_table returns *)
(* none, having looked up the candidates and the open-file variant but   *)
(* not the key of the type's own variant; type Free always does so, also *)
(* with a table registered under the Free, none/none key                 *)
C17_SentinelSkipsFinalLookup ==
    (/\ call.op = "select"
     /\ RegisteredCandidates(call) = {}
     /\ ~OpenFileApplies(call)
     /\ ResolvedIndex(call) = ALL_ONES) =>
        /\ call.result = Ok(None)
        /\ call.lookups = [i \in 1..call.mb_info.num_parities |-> ParityKeyOf(call, i)]
                          \o OpenFileLookup(call)
        /\ call.opens = <<>>
        /\ tables = call.before

(* type Free with a candidate that is not registered and a table         *)
(* registered under the Free, none/none key: none                        *)
C17_Witness ==
    /\ call.op = "select"
    /\ call.mb_info.pawn_file_type = "Free"
    /\ call.mb_info.num_parities = 1
    /\ RegisteredCandidates(call) = {}
    /\ BaseKeyOf(call) \in DOMAIN call.before
    /\ call.result = Ok(None)
    /\ Len(call.lookups) = 1

(* the single-sided probes of a call that went past the lone-king check *)
FullSides(c) == {i \in 1..Len(c.sides) : c.sides[i].why # "lone_king"}

(* one side of the position has its king alone *)
HasLoneKing(pos) == \E c \in Colors : Count(pos.board, c) < 2

(* C18: a single-sided probe of a position in which white has fewer than *)
(* two pieces gives unresolved with no classifier call, lookup or read:  *)
(* the call's classifier calls, lookups and reads are those of its other *)
(* single-sided probes; and for a position with a lone king that is past *)
(* the guards of probe, the first single-sided probe is for the side     *)
(* with material, a distance from it is the value, and unresolved from   *)
(* it is followed by the lone-king shortcut and gives Draw               *)
C18_LoneKingShortCircuit ==
    call.op = "probe" =>
        /\ \A i \in 1..Len(call.sides) :
              /\ call.sides[i].why = "lone_king"
                    <=> Count(call.sides[i].pos.board, "white") < 2
              /\ call.sides[i].why = "lone_king"
                    => call.sides[i].result = Ok(Some(Unresolved))
        /\ call.classified = Cardinality(FullSides(call))
        /\ call.reads <= Cardinality(FullSides(call))
        /\ \A j \in 1..Len(call.lookups) :
              \E i \in FullSides(call) :
                 /\ call.lookups[j].side = call.sides[i].pos.turn
                 /\ call.lookups[j].material = material(call.sides[i].pos.board)
        /\ (Covered(call) /\ HasLoneKing(call.pos)) =>
              /\ FullSides(call) = {1}
              /\ Count(call.sides[1].pos.board, "black") < 2
              /\ call.sides[1].why = "dtc" =>
                    call.result = Ok(Some(Dtc(call.sides[1].result.val.val.n
                                                 * fold_wb(call.sides[1].pos.turn))))
              /\ call.sides[1].why = "unresolved" =>
                    /\ Len(call.sides) = 2
                    /\ call.sides[2].why = "lone_king"
                    /\ call.result = Ok(Some(Draw))

(* king and pawn against king with the lone king's side given as white:  *)
(* the pawn side's table reads unresolved, the lone king's side is not   *)
(* looked up, and the value is Draw                                      *)
C18_Witness ==
    /\ call.op = "probe"
    /\ call.pos.board = LonePawnBlack
    /\ Len(call.sides) = 2
    /\ call.sides[1].why = "unresolved"
    /\ call.sides[2].why = "lone_king"
    /\ call.sides[2].pos = call.pos
    /\ call.classified = 1
    /\ call.reads = 1
    /\ Len(call.lookups) >= 1
    /\ call.result = Ok(Some(Draw))

(* C19: every key of the registry has a material with exactly one king   *)
(* on either side                                                        *)
C19_OneKingPerSide ==
    \A k \in DOMAIN tables : \A c \in Colors : k.material[c].king = 1

(* the bishop-parity pairs of the call's candidates *)
CandidatePairs(c) ==
    {[white |-> c.mb_info.parity_index[i].bishop_parity[1],
      black |-> c.mb_info.parity_index[i].bishop_parity[2]] :
        i \in 1..c.mb_info.num_parities}

(* C20: a table that select_table returns is the one held by a key that  *)
(* was registered when the call began, whose material, side, king bucket *)
(* and table kind are those of the position, the classifier output and   *)
(* the request, and which is either of pawn-file type Free with the      *)
(* parities of a candidate, or of another pawn-file type with parities   *)
(* none/none and an index that is not the sentinel                       *)
C20_SelectedKeyMatchesCall ==
    (call.op = "select" /\ call.result.ok /\ call.result.val.some) =>
        LET key == call.result.val.val.key
            index == call.result.val.val.index
        IN /\ key \in DOMAIN call.before
           /\ key \in DOMAIN tables
           /\ tables[key].cell = call.result.val.val.table
           /\ tables[key].cell > 0
           /\ key.material = material(call.pos.board)
           /\ key.side = call.pos.turn
           /\ key.kk_index = call.mb_info.kk_index
           /\ key.table_type = call.table_type
           /\ \/ /\ key.pawn_file_type = "Free"
                 /\ key.bishop_parity \in CandidatePairs(call)
              \/ /\ key.pawn_file_type # "Free"
                 /\ key.bishop_parity = NoParity
                 /\ index # ALL_ONES

(* a table returned on the pawn-file path, from a registry that also     *)
(* holds the black-to-move and the high-value tables of its variant      *)
C20_Witness ==
    /\ call.op = "select"
    /\ call.result.ok /\ call.result.val.some
    /\ call.result.val.val.key.pawn_file_type = "Op21"
    /\ call.result.val.val.index = call.mb_info.index_op_21
    /\ [call.result.val.val.key EXCEPT !.side = "black"] \in DOMAIN call.before
    /\ [call.result.val.val.key EXCEPT !.table_type = "HighDtc"] \in DOMAIN call.before

====
